---- MODULE Spec2Model ----
(***************************************************************************)
(* Verification model of the incorrect-questions upload pipeline:          *)
(*   - the AI extraction client with its retry loop (lib/ai/extraction.ts) *)
(*   - the localStorage question store (lib/storage/questions.ts,          *)
(*     lib/storage/schema.ts)                                              *)
(*   - the upload session of the ImageUploader component                   *)
(* Confidence values are kept as integers in hundredths (0.95 is 95).      *)
(* A JavaScript null string is the reserved string Null.                   *)
(***************************************************************************)
EXTENDS Integers, Sequences, FiniteSets, TLC

VARIABLES
    \* ---- extractQuestionFromImage: arguments and environment
    apiKeyConfigured,   \* isApiKeyConfigured()
    argEducationLevel,  \* parameter educationLevel
    argMaxRetries,      \* parameter maxRetries
    \* ---- extractQuestionFromImage: position and locals
    pc,                 \* "idle" | "requesting" | "backoff" | "mockDelay" | "returned" | "thrown"
    attempt,            \* loop variable
    lastError,          \* local lastError
    returned,           \* {} or {the resolved AIExtractionResponse}
    thrown,             \* {} or {the error the promise rejected with}
    \* ---- extractQuestionFromImage: observed effects
    calls,              \* number of aiClient.chat.completions.create calls issued
    timers,             \* durations handed to setTimeout, in order
    responses,          \* what each issued call came back with, in order
    \* ---- localStorage and the store
    storage,            \* {} or {the container saved under STORAGE_KEY}
    versionKey,         \* {} or {the string saved under VERSION_KEY}
    clock,              \* Date.now(), a logical instant
    uuids,              \* how many ids crypto.randomUUID() has handed out
    lastOp,             \* the last direct call of a library function: arguments, container before, outcome
    tabs,               \* per browsing context: the store call it is in the middle of, the ids its creates handed back
    \* ---- ImageUploader component state
    file,               \* useState file: NoFile or a file descriptor
    preview,            \* useState preview: "" or a data URL
    extractedResult,    \* useState extractedResult: {} or {result}
    questionId,         \* useState questionId: 0 (null) or an id
    isProcessing,       \* useState isProcessing
    error,              \* useState error: Null or a message
    educationLevel,     \* useState educationLevel
    tasks,              \* suspended async handlers of the component
    started,            \* how many async handlers have been started
    toast               \* the last toast ConfirmationView showed

extractVars == <<apiKeyConfigured, argEducationLevel, argMaxRetries, pc, attempt,
                 lastError, returned, thrown, calls, timers, responses>>
storeVars == <<storage, versionKey, clock, uuids, lastOp, tabs>>
uiVars == <<file, preview, extractedResult, questionId, isProcessing, error,
            educationLevel, tasks, started, toast>>
vars == <<extractVars, storeVars, uiVars>>

\* ------------------------------------------------------------------ bounds
MaxRetriesBound == 5
MaxUuids == 2
MaxClock == 1
MaxStarted == 3

\* --------------------------------------------------------------- constants
DefaultMaxRetries == 3
BackoffBaseMs == 1000
BackoffCapMs == 10000
MockDelayMs == 1500
MockConfidence == 95

Null == "<null>"
GradeLevels == {"elementary", "middle", "high"}
\* the grade buttons pressed in a session
SessionLevels == {"middle", "high"}

Min(a, b) == IF a < b THEN a ELSE b

\* ------------------------------------------------ AIExtractionResponse values
MkResult(text, conf, noise, err, level) ==
    [questionText |-> text, confidence |-> conf, noiseFiltered |-> noise,
     errorMessage |-> err, educationLevel |-> level]

MockQuestionText == "1. Which of the following is a pure substance? A. air B. brine C. distilled water D. mineral water"

mockExtraction_FixedLevel(level) ==
    MkResult(MockQuestionText, MockConfidence, TRUE, Null, "middle")
mockExtraction(level) ==
    MkResult(MockQuestionText, MockConfidence, TRUE, Null, level)

\* ------------------------------------------------------------- error values
MkError(name, hasStatus, status, message) ==
    [name |-> name, hasStatus |-> hasStatus, status |-> status, message |-> message]

\* lastError = null; `${lastError?.message}` then renders "undefined"
NoError == MkError("null", FALSE, 0, "undefined")

\* errors the OpenAI client rejects with: an HTTP status, or none (connection error)
ApiStatuses == {400, 401, 429, 499, 500, 503}
ApiError(s) == MkError("APIError", TRUE, s, ToString(s) \o " status code")
ConnectionError == MkError("APIConnectionError", FALSE, 0, "Connection error.")
ApiErrors == {ApiError(s) : s \in ApiStatuses} \cup {ConnectionError}

EmptyResponseError == MkError("Error", FALSE, 0, "Empty response from AI")
JsonSyntaxError == MkError("SyntaxError", FALSE, 0, "Unexpected token in JSON")
InvalidKeyError ==
    MkError("Error", FALSE, 0, "API key is invalid. Please check your configuration.")
RetriesExhaustedError(n, last) ==
    MkError("Error", FALSE, 0,
            "Failed after " \o ToString(n) \o " attempts: " \o last.message)

\* ------------------------------------------------- message contents and JSON
JsonGoodA == "{'questionText':'Solve 2x+3=7','confidence':0.9,'noiseFiltered':true,'errorMessage':null,'educationLevel':'middle'}"
JsonNoText == "{'questionText':'','confidence':0,'noiseFiltered':false,'errorMessage':'No readable text found','educationLevel':'middle'}"
JsonOverConfident == "{'questionText':'Q','confidence':1.5,'noiseFiltered':false,'errorMessage':null,'educationLevel':'elementary'}"
NotJson == "Sorry, I cannot read this image."

\* JSON.parse: ok with the parsed object, or a SyntaxError
JSONParse(content) ==
    CASE content = JsonGoodA ->
            [ok |-> TRUE, value |-> MkResult("Solve 2x+3=7", 90, TRUE, Null, "middle")]
      [] content = JsonNoText ->
            [ok |-> TRUE, value |-> MkResult("", 0, FALSE, "No readable text found", "middle")]
      [] content = JsonOverConfident ->
            [ok |-> TRUE, value |-> MkResult("Q", 150, FALSE, Null, "elementary")]
      [] OTHER ->
            [ok |-> FALSE, value |-> MkResult("", 0, FALSE, Null, "middle")]

\* what one completions.create call can come back with
MkResponse(rejected, err, hasContent, content) ==
    [rejected |-> rejected, error |-> err, hasContent |-> hasContent, content |-> content]
Contents == {"", JsonGoodA, JsonNoText, JsonOverConfident, NotJson}
Responses ==
    {MkResponse(TRUE, e, FALSE, "") : e \in ApiErrors}
    \cup {MkResponse(FALSE, NoError, TRUE, c) : c \in Contents}
    \cup {MkResponse(FALSE, NoError, FALSE, "")}   \* choices[0]?.message?.content undefined

\* ------------------------------------------------------------------------
\* extractQuestionFromImage (lib/ai/extraction.ts)
\* ------------------------------------------------------------------------

\* catch: error.status === 401
IsAuthError_Forbidden(err) == err.hasStatus /\ err.status = 403
IsAuthError(err) == err.hasStatus /\ err.status = 401

\* catch: error.status === 429 || (error.status && error.status >= 500)
IsRetryable_NoStatus(err) ==
    ~err.hasStatus \/ err.status = 429 \/ err.status >= 500
IsRetryable_ClientErrors(err) ==
    err.hasStatus /\ err.status # 0 /\ err.status >= 400
IsRetryable(err) ==
    err.hasStatus /\ (err.status = 429 \/ (err.status # 0 /\ err.status >= 500))

\* Math.min(1000 * Math.pow(2, attempt), 10000)
BackoffDelay_Linear(k) == Min(BackoffBaseMs * (k + 1), BackoffCapMs)
BackoffDelay_NoCap(k) == BackoffBaseMs * 2^k
BackoffDelay(k) == Min(BackoffBaseMs * 2^k, BackoffCapMs)

\* for (...; attempt < maxRetries; ...)
LoopContinues_OffByOne(k) == k <= argMaxRetries
LoopContinues(k) == k < argMaxRetries

\* lastError = error
RememberError_First(prev, err) == IF prev = NoError THEN err ELSE prev
RememberError(prev, err) == err

\* the try body after the await: the error it raises, NoError when it returns.
\* A rejected call raises the client's error; `!content` raises the empty
\* response error; JSON.parse raises a SyntaxError.
AttemptError_NoEmptyCheck(r) ==
    IF r.rejected THEN r.error
    ELSE IF ~r.hasContent \/ ~JSONParse(r.content).ok THEN JsonSyntaxError
    ELSE NoError
AttemptError(r) ==
    IF r.rejected THEN r.error
    ELSE IF ~r.hasContent \/ r.content = "" THEN EmptyResponseError
    ELSE IF ~JSONParse(r.content).ok THEN JsonSyntaxError
    ELSE NoError

\* the loop head reached with attempt = k: issue the next request, or leave
\* the loop and throw `Failed after ${maxRetries} attempts: ...`
EnterLoop(k, last) ==
    /\ attempt' = k
    /\ lastError' = last
    /\ IF LoopContinues(k)
       THEN /\ calls' = calls + 1
            /\ pc' = "requesting"
            /\ thrown' = thrown
       ELSE /\ calls' = calls
            /\ pc' = "thrown"
            /\ thrown' = {RetriesExhaustedError(argMaxRetries, last)}

\* the call up to its first await, with no API key: mockExtraction's setTimeout
ExtractMock ==
    /\ pc = "idle"
    /\ ~apiKeyConfigured
    /\ pc' = "mockDelay"
    /\ timers' = Append(timers, MockDelayMs)
    /\ UNCHANGED <<apiKeyConfigured, argEducationLevel, argMaxRetries, attempt,
                   lastError, returned, thrown, calls, responses>>
    /\ UNCHANGED <<storeVars, uiVars>>

\* the call up to its first await, with an API key
ExtractBegin ==
    /\ pc = "idle"
    /\ apiKeyConfigured
    /\ EnterLoop(0, NoError)
    /\ UNCHANGED <<apiKeyConfigured, argEducationLevel, argMaxRetries,
                   returned, timers, responses>>
    /\ UNCHANGED <<storeVars, uiVars>>

\* the mock timer fires
MockResolve ==
    /\ pc = "mockDelay"
    /\ pc' = "returned"
    /\ returned' = {mockExtraction(argEducationLevel)}
    /\ UNCHANGED <<apiKeyConfigured, argEducationLevel, argMaxRetries, attempt,
                   lastError, thrown, calls, timers, responses>>
    /\ UNCHANGED <<storeVars, uiVars>>

\* the awaited completions.create settles with r: the rest of the try body
\* and, when it raises, the catch block up to its await or throw
ReceiveResponse(r) ==
    /\ pc = "requesting"
    /\ responses' = Append(responses, r)
    /\ LET err == AttemptError(r) IN
       IF err = NoError
       THEN /\ pc' = "returned"
            /\ returned' = {JSONParse(r.content).value}
            /\ UNCHANGED <<lastError, thrown, timers>>
       ELSE /\ lastError' = RememberError(lastError, err)
            /\ returned' = returned
            /\ IF IsAuthError(err)
               THEN /\ pc' = "thrown"
                    /\ thrown' = {InvalidKeyError}
                    /\ timers' = timers
               ELSE IF IsRetryable(err)
               THEN /\ pc' = "backoff"
                    /\ timers' = Append(timers, BackoffDelay(attempt))
                    /\ thrown' = thrown
               ELSE /\ pc' = "thrown"
                    /\ thrown' = {err}
                    /\ timers' = timers
    /\ UNCHANGED <<apiKeyConfigured, argEducationLevel, argMaxRetries, attempt, calls>>
    /\ UNCHANGED <<storeVars, uiVars>>

\* the backoff timer fires: continue, attempt++, loop head
BackoffElapsed ==
    /\ pc = "backoff"
    /\ EnterLoop(attempt + 1, lastError)
    /\ UNCHANGED <<apiKeyConfigured, argEducationLevel, argMaxRetries,
                   returned, timers, responses>>
    /\ UNCHANGED <<storeVars, uiVars>>


\* ------------------------------------------------------------------------
\* localStorage schema (lib/storage/schema.ts), browser environment
\* ------------------------------------------------------------------------
CURRENT_VERSION == "1.0.0"
NoInstant == -1          \* confirmedAt: null
NoId == 0                \* questionId: null

QuotaExceededDom ==
    MkError("QuotaExceededError", FALSE, 0, "The quota has been exceeded.")
StorageFullError ==
    MkError("Error", FALSE, 0, "Storage is full. Please delete old questions to make space.")
MigrationError(v) ==
    MkError("Error", FALSE, 0, "Schema migration needed: " \o v \o " -> " \o CURRENT_VERSION)
NotFoundError(id) ==
    MkError("Error", FALSE, 0, "Question not found: " \o ToString(id))

\* how a pair of localStorage.setItem calls (data, then version) can end
WriteOutcomes == {"ok", "quotaOnData", "quotaOnVersion"}

\* the keys of an object in order
RECURSIVE KeySeq(_)
KeySeq(keys) ==
    IF keys = {} THEN <<>>
    ELSE LET k == CHOOSE x \in keys : \A y \in keys : x <= y
         IN <<k>> \o KeySeq(keys \ {k})

\* JSON.stringify(schema): the questions object becomes its list of entries
StringifySchema(schema) ==
    [version |-> schema.version,
     entries |-> [i \in 1..Cardinality(DOMAIN schema.questions) |->
                    LET k == KeySeq(DOMAIN schema.questions)[i]
                    IN <<k, schema.questions[k]>>],
     metadata |-> schema.metadata]

\* JSON.parse(data) as LocalStorageSchema
ParseSchema(data) ==
    [version |-> data.version,
     questions |-> [k \in {data.entries[i][1] : i \in 1..Len(data.entries)} |->
                      LET i == CHOOSE j \in 1..Len(data.entries) : data.entries[j][1] = k
                      IN data.entries[i][2]],
     metadata |-> data.metadata]

EmptySchema(now) ==
    [version |-> "1.0.0",
     questions |-> [k \in {} |-> 0],
     metadata |-> [createdAt |-> now, lastModified |-> now, totalQuestions |-> 0]]

\* localStorage as a value: the two keys the application uses
Store(data, ver) == [data |-> data, ver |-> ver]

\* localStorage.setItem(STORAGE_KEY, text); localStorage.setItem(VERSION_KEY, ...)
\* The first write fails when the quota is exhausted; the second can fail
\* only when it adds the key.
SetItems(S, text, w) ==
    IF w = "quotaOnData" THEN [threw |-> TRUE, store |-> S]
    ELSE IF w = "quotaOnVersion" /\ S.ver = {}
    THEN [threw |-> TRUE, store |-> Store({text}, S.ver)]
    ELSE [threw |-> FALSE, store |-> Store({text}, {CURRENT_VERSION})]

\* the result of an operation of the store: ok with a value, or an error
Ok(S, schema, id) == [ok |-> TRUE, err |-> NoError, store |-> S, schema |-> schema, id |-> id]
Err(S, e, now) == [ok |-> FALSE, err |-> e, store |-> S, schema |-> EmptySchema(now), id |-> NoId]

\* initializeStorage that loads whatever container is stored
initializeStorage_AnyVersion(S, now, w) ==
    IF S.data # {}
    THEN Ok(S, ParseSchema(CHOOSE d \in S.data : TRUE), NoId)
    ELSE LET written == SetItems(S, StringifySchema(EmptySchema(now)), w) IN
         IF written.threw
         THEN Err(written.store, QuotaExceededDom, now)
         ELSE Ok(written.store, EmptySchema(now), NoId)
initializeStorage(S, now, w) ==
    IF S.data # {}
    THEN LET schema == ParseSchema(CHOOSE d \in S.data : TRUE) IN
         IF schema.version # CURRENT_VERSION
         THEN Err(S, MigrationError(schema.version), now)
         ELSE Ok(S, schema, NoId)
    ELSE LET written == SetItems(S, StringifySchema(EmptySchema(now)), w) IN
         IF written.threw
         THEN Err(written.store, QuotaExceededDom, now)
         ELSE Ok(written.store, EmptySchema(now), NoId)

\* getSchema that writes a fresh container over whatever is stored
getSchema_Fresh(S, now, w) ==
    LET written == SetItems(S, StringifySchema(EmptySchema(now)), w) IN
    IF written.threw
    THEN Err(written.store, QuotaExceededDom, now)
    ELSE Ok(written.store, EmptySchema(now), NoId)
getSchema(S, now, w) ==
    IF S.data = {}
    THEN initializeStorage(S, now, w)
    ELSE Ok(S, ParseSchema(CHOOSE d \in S.data : TRUE), NoId)

saveSchema(S, schema, now, w) ==
    LET written == SetItems(S, StringifySchema(schema), w) IN
    IF written.threw
    THEN Err(written.store, StorageFullError, now)
    ELSE Ok(written.store, schema, NoId)

\* ------------------------------------------------------------------------
\* question CRUD (lib/storage/questions.ts)
\* ------------------------------------------------------------------------
Truthy(str) == str # Null /\ str # ""

NewQuestion(id, imageBase64, fileSize, fileFormat, resp, now) ==
    [id |-> id,
     imageBase64 |-> imageBase64,
     fileSize |-> fileSize,
     fileFormat |-> fileFormat,
     extractedText |-> resp.questionText,
     confidence |-> resp.confidence,
     noiseFiltered |-> resp.noiseFiltered,
     processingStatus |-> IF Truthy(resp.errorMessage) THEN "failed" ELSE "pending",
     errorMessage |-> resp.errorMessage,
     uploadTimestamp |-> now,
     confirmedAt |-> NoInstant,
     gradeLevel |-> resp.educationLevel]

\* obj[key] = value
Put(questions, key, value) ==
    [k \in DOMAIN questions \cup {key} |-> IF k = key THEN value ELSE questions[k]]

\* wInit: how the lazy initialisation's writes end; wSave: how saveSchema's do
createQuestion(S, id, imageBase64, fileSize, fileFormat, resp, now, wInit, wSave) ==
    LET got == getSchema(S, now, wInit) IN
    IF ~got.ok THEN got
    ELSE LET schema == got.schema
             changed ==
                [schema EXCEPT
                   !.questions = Put(schema.questions, id,
                                     NewQuestion(id, imageBase64, fileSize, fileFormat, resp, now)),
                   !.metadata.totalQuestions = @ + 1,
                   !.metadata.lastModified = now]
             saved == saveSchema(got.store, changed, now, wSave)
         IN IF saved.ok THEN Ok(saved.store, changed, id) ELSE saved

\* confirmQuestion that keeps the instant of a first confirmation
confirmQuestion_KeepFirst(S, id, now, wInit, wSave) ==
    LET got == getSchema(S, now, wInit) IN
    IF ~got.ok THEN got
    ELSE LET schema == got.schema IN
         IF id \notin DOMAIN schema.questions
         THEN Err(got.store, NotFoundError(id), now)
         ELSE LET changed ==
                    [schema EXCEPT
                       !.questions[id].confirmedAt = IF @ = NoInstant THEN now ELSE @,
                       !.questions[id].processingStatus = "success",
                       !.metadata.lastModified = now]
              IN saveSchema(got.store, changed, now, wSave)
confirmQuestion(S, id, now, wInit, wSave) ==
    LET got == getSchema(S, now, wInit) IN
    IF ~got.ok THEN got
    ELSE LET schema == got.schema IN
         IF id \notin DOMAIN schema.questions
         THEN Err(got.store, NotFoundError(id), now)
         ELSE LET changed ==
                    [schema EXCEPT
                       !.questions[id].confirmedAt = now,
                       !.questions[id].processingStatus = "success",
                       !.metadata.lastModified = now]
              IN saveSchema(got.store, changed, now, wSave)

\* updateExtraction with the status taken from the answer's confirmation state
updateExtraction_Unconfirm(S, id, resp, now, wInit, wSave) ==
    LET got == getSchema(S, now, wInit) IN
    IF ~got.ok THEN got
    ELSE LET schema == got.schema IN
         IF id \notin DOMAIN schema.questions
         THEN Err(got.store, NotFoundError(id), now)
         ELSE LET changed ==
                    [schema EXCEPT
                       !.questions[id].extractedText = resp.questionText,
                       !.questions[id].confidence = resp.confidence,
                       !.questions[id].noiseFiltered = resp.noiseFiltered,
                       !.questions[id].errorMessage = resp.errorMessage,
                       !.questions[id].processingStatus =
                            IF Truthy(resp.errorMessage) THEN "failed" ELSE "pending",
                       !.questions[id].confirmedAt = NoInstant,
                       !.metadata.lastModified = now]
              IN saveSchema(got.store, changed, now, wSave)
updateExtraction(S, id, resp, now, wInit, wSave) ==
    LET got == getSchema(S, now, wInit) IN
    IF ~got.ok THEN got
    ELSE LET schema == got.schema IN
         IF id \notin DOMAIN schema.questions
         THEN Err(got.store, NotFoundError(id), now)
         ELSE LET changed ==
                    [schema EXCEPT
                       !.questions[id].extractedText = resp.questionText,
                       !.questions[id].confidence = resp.confidence,
                       !.questions[id].noiseFiltered = resp.noiseFiltered,
                       !.questions[id].errorMessage = resp.errorMessage,
                       !.questions[id].processingStatus =
                            IF Truthy(resp.errorMessage) THEN "failed" ELSE "pending",
                       !.metadata.lastModified = now]
              IN saveSchema(got.store, changed, now, wSave)

\* delete obj[key]
Remove(questions, key) == [k \in DOMAIN questions \ {key} |-> questions[k]]

\* deleteQuestion that forgets the count
deleteQuestion_KeepCount(S, id, now, wInit, wSave) ==
    LET got == getSchema(S, now, wInit) IN
    IF ~got.ok THEN got
    ELSE LET schema == got.schema IN
         IF id \notin DOMAIN schema.questions
         THEN Err(got.store, NotFoundError(id), now)
         ELSE LET changed ==
                    [schema EXCEPT
                       !.questions = Remove(schema.questions, id),
                       !.metadata.lastModified = now]
              IN saveSchema(got.store, changed, now, wSave)
\* deleteQuestion without the check for a missing record
deleteQuestion_NoCheck(S, id, now, wInit, wSave) ==
    LET got == getSchema(S, now, wInit) IN
    IF ~got.ok THEN got
    ELSE LET schema == got.schema
             changed ==
                [schema EXCEPT
                   !.questions = Remove(schema.questions, id),
                   !.metadata.totalQuestions = @ - 1,
                   !.metadata.lastModified = now]
         IN saveSchema(got.store, changed, now, wSave)
\* deleteQuestion that drops every record
deleteQuestion_All(S, id, now, wInit, wSave) ==
    LET got == getSchema(S, now, wInit) IN
    IF ~got.ok THEN got
    ELSE LET schema == got.schema IN
         IF id \notin DOMAIN schema.questions
         THEN Err(got.store, NotFoundError(id), now)
         ELSE LET changed ==
                    [schema EXCEPT
                       !.questions = [k \in {} |-> 0],
                       !.metadata.totalQuestions = @ - 1,
                       !.metadata.lastModified = now]
              IN saveSchema(got.store, changed, now, wSave)
deleteQuestion(S, id, now, wInit, wSave) ==
    LET got == getSchema(S, now, wInit) IN
    IF ~got.ok THEN got
    ELSE LET schema == got.schema IN
         IF id \notin DOMAIN schema.questions
         THEN Err(got.store, NotFoundError(id), now)
         ELSE LET changed ==
                    [schema EXCEPT
                       !.questions = Remove(schema.questions, id),
                       !.metadata.totalQuestions = @ - 1,
                       !.metadata.lastModified = now]
              IN saveSchema(got.store, changed, now, wSave)

\* clearAllQuestions that saves a fresh container
clearAllQuestions_Fresh(S, now, wInit, wSave) ==
    LET got == getSchema(S, now, wInit) IN
    IF ~got.ok THEN got
    ELSE saveSchema(got.store, EmptySchema(now), now, wSave)
clearAllQuestions(S, now, wInit, wSave) ==
    LET got == getSchema(S, now, wInit) IN
    IF ~got.ok THEN got
    ELSE LET changed ==
               [got.schema EXCEPT
                  !.questions = [k \in {} |-> 0],
                  !.metadata.totalQuestions = 0,
                  !.metadata.lastModified = now]
         IN saveSchema(got.store, changed, now, wSave)

\* schema.questions[id] || null: {} stands for null
getQuestionById(S, id, now, wInit) ==
    LET got == getSchema(S, now, wInit) IN
    [ok |-> got.ok, err |-> got.err, store |-> got.store,
     value |-> IF got.ok /\ id \in DOMAIN got.schema.questions
               THEN {got.schema.questions[id]} ELSE {}]

\* Object.values(schema.questions): the records in the order of their keys
getAllQuestions(S, now, wInit) ==
    LET got == getSchema(S, now, wInit)
        keys == KeySeq(DOMAIN got.schema.questions)
    IN [ok |-> got.ok, err |-> got.err, store |-> got.store,
        value |-> IF got.ok
                  THEN {[i \in 1..Len(keys) |-> got.schema.questions[keys[i]]]}
                  ELSE {}]

\* ---- getStorageMetrics (lib/storage/schema.ts)
\* what navigator.storage?.estimate() does: navigator.storage is undefined
\* ("absent"), the promise rejects or estimate is no function ("rejects"),
\* it resolves without a quota ("noQuota"), or with one ("reports")
MkEstimate(kind, quota) == [kind |-> kind, quota |-> quota]
Estimates ==
    {MkEstimate("absent", 0), MkEstimate("rejects", 0), MkEstimate("noQuota", 0),
     MkEstimate("reports", 20 * 1024 * 1024)}

DefaultQuotaBytes == 10 * 1024 * 1024
FallbackQuotaBytes == 5 * 1024 * 1024

\* new Blob([dataString]).size: the envelope, and per record its fields and
\* the base64 text of the image (4 characters for every 3 bytes)
EnvelopeBytes == 120
RecordBytes == 400
RECURSIVE SumBytes(_)
SumBytes(entries) ==
    IF entries = <<>> THEN 0
    ELSE RecordBytes + 4 * ((entries[1][2].fileSize + 2) \div 3) + SumBytes(Tail(entries))
BlobSize(data) ==
    IF data = {} THEN 0
    ELSE EnvelopeBytes + SumBytes((CHOOSE d \in data : TRUE).entries)

\* Math.round(a / b) for a >= 0, b > 0
RoundDiv(a, b) == (2 * a + b) \div (2 * b)

\* Math.round((sizeBytes / quotaBytes) * 100 * 100), by long division to stay
\* within 32-bit integers
PercentHundredths(sizeBytes, quotaBytes) ==
    LET r == (sizeBytes % quotaBytes) * 100
    IN (sizeBytes \div quotaBytes) * 10000
       + (r \div quotaBytes) * 100
       + ((r % quotaBytes) * 100 + quotaBytes \div 2) \div quotaBytes

\* estimate?.quota || 10 MB inside the try; 5 MB in the catch
QuotaBytes(est) ==
    CASE est.kind = "rejects" -> FallbackQuotaBytes
      [] est.kind = "reports" /\ est.quota # 0 -> est.quota
      [] OTHER -> DefaultQuotaBytes

\* percentUsed is kept in hundredths of a percent
getStorageMetrics(S, now, wInit, est) ==
    LET got == getSchema(S, now, wInit)
        questions == {got.schema.questions[k] : k \in DOMAIN got.schema.questions}
        sizeBytes == BlobSize(got.store.data)
    IN [ok |-> got.ok, err |-> got.err, store |-> got.store,
        value |-> IF ~got.ok THEN {}
                  ELSE {[totalQuestions |-> got.schema.metadata.totalQuestions,
                         confirmedQuestions |->
                            Cardinality({q \in questions : q.confirmedAt # NoInstant}),
                         pendingQuestions |->
                            Cardinality({q \in questions : q.processingStatus = "pending"}),
                         failedQuestions |->
                            Cardinality({q \in questions : q.processingStatus = "failed"}),
                         estimatedSizeKB |-> RoundDiv(sizeBytes, 1024),
                         percentUsed |-> PercentHundredths(sizeBytes, QuotaBytes(est))]}]

\* what getAllQuestions() shows of the persisted container (no write when
\* the container exists)
PersistedQuestions ==
    IF storage = {} THEN {}
    ELSE LET schema == ParseSchema(CHOOSE d \in storage : TRUE)
         IN {schema.questions[k] : k \in DOMAIN schema.questions}

\* ------------------------------------------------------------------------
\* image validation and encoding (lib/validation/imageValidator.ts)
\* ------------------------------------------------------------------------
SUPPORTED_FORMATS == {"image/jpeg", "image/png", "image/webp"}
MAX_FILE_SIZE == 5 * 1024 * 1024

MkFile(name, type, size) == [name |-> name, type |-> type, size |-> size]
NoFile == MkFile("", "", 0)      \* file: null

Valid == [isValid |-> TRUE, errorMessage |-> Null]
Invalid(msg) == [isValid |-> FALSE, errorMessage |-> msg]

\* (file.size / (1024 * 1024)).toFixed(2)
SizeMB(size) ==
    LET h == (size * 100 + 512 * 1024) \div (1024 * 1024)
        frac == h % 100
    IN ToString(h \div 100) \o "." \o (IF frac < 10 THEN "0" ELSE "") \o ToString(frac)

validateImageFormat(f) ==
    IF f.type \notin SUPPORTED_FORMATS
    THEN Invalid("Invalid file format. Please upload an image file (JPEG, PNG, or WebP). Your file type: "
                 \o f.type)
    ELSE Valid

\* validateImageSize turning away a file of exactly MAX_FILE_SIZE
validateImageSize_Exclusive(f) ==
    IF f.size >= MAX_FILE_SIZE
    THEN Invalid("Image is too large (" \o SizeMB(f.size) \o "MB). Please use an image under 5MB.")
    ELSE Valid
validateImageSize(f) ==
    IF f.size > MAX_FILE_SIZE
    THEN Invalid("Image is too large (" \o SizeMB(f.size) \o "MB). Please use an image under 5MB.")
    ELSE Valid

\* validateImage checking the size before the format
validateImage_SizeFirst(f) ==
    IF ~validateImageSize(f).isValid THEN validateImageSize(f)
    ELSE IF ~validateImageFormat(f).isValid THEN validateImageFormat(f)
    ELSE Valid
validateImage(f) ==
    IF ~validateImageFormat(f).isValid THEN validateImageFormat(f)
    ELSE IF ~validateImageSize(f).isValid THEN validateImageSize(f)
    ELSE Valid

\* FileReader.readAsDataURL: the data URL of the file's bytes
fileToBase64(f) == "data:" \o f.type \o ";base64," \o f.name

\* ------------------------------------------------------------------------
\* ImageUploader and ConfirmationView (components/upload)
\* ------------------------------------------------------------------------
\* the files the user picks in a session
Files ==
    {MkFile("a.jpg", "image/jpeg", 1024),
     MkFile("b.png", "image/png", MAX_FILE_SIZE),
     MkFile("c.pdf", "application/pdf", 1024),
     MkFile("d.jpg", "image/jpeg", MAX_FILE_SIZE + 1)}

\* what `await extractQuestionFromImage(base64, level)` (maxRetries = 3)
\* resolves with, and the rejections the session is run against: one error
\* thrown as it is and one exhausted retry loop
ExtractReturns(level) ==
    IF apiKeyConfigured
    THEN {JSONParse(c).value : c \in {x \in Contents : x # "" /\ JSONParse(x).ok}}
    ELSE {mockExtraction(level)}
ExtractThrows ==
    IF apiKeyConfigured
    THEN {EmptyResponseError, RetriesExhaustedError(DefaultMaxRetries, ApiError(500))}
    ELSE {}

\* err.message || fallback
MessageOr(err, fallback) == IF err.message = "" THEN fallback ELSE err.message

MkTask(tid, kind, f, base64, level) ==
    [tid |-> tid, kind |-> kind, file |-> f, base64 |-> base64, level |-> level]

\* what the render shows
InputEnabled == ~isProcessing
ConfirmationViewShown ==
    preview # "" /\ ~isProcessing /\ extractedResult # {} /\ questionId # NoId

\* handleFileSelect up to its first await (or its early return)
handleFileSelect(f) ==
    /\ InputEnabled
    /\ started < MaxStarted
    /\ extractedResult' = {}
    /\ questionId' = NoId
    /\ IF ~validateImage(f).isValid
       THEN /\ error' = validateImage(f).errorMessage
            /\ UNCHANGED <<file, tasks, started>>
       ELSE /\ error' = Null
            /\ file' = f
            /\ started' = started + 1
            /\ tasks' = tasks \cup {MkTask(started + 1, "encode", f, "", educationLevel)}
    /\ UNCHANGED <<preview, isProcessing, educationLevel, toast>>
    /\ UNCHANGED <<extractVars, storeVars>>

\* fileToBase64 resolves: setPreview, then extractText up to its await
EncodeResolve(t) ==
    /\ t \in tasks /\ t.kind = "encode"
    /\ preview' = fileToBase64(t.file)
    /\ isProcessing' = TRUE
    /\ error' = Null
    /\ tasks' = (tasks \ {t}) \cup
                {MkTask(t.tid, "extract", t.file, fileToBase64(t.file), t.level)}
    /\ UNCHANGED <<file, extractedResult, questionId, educationLevel, started, toast>>
    /\ UNCHANGED <<extractVars, storeVars>>

\* fileToBase64 rejects: the catch of handleFileSelect
EncodeReject(t) ==
    /\ t \in tasks /\ t.kind = "encode"
    /\ error' = "Failed to process image. Please try again."
    /\ tasks' = tasks \ {t}
    /\ UNCHANGED <<file, preview, extractedResult, questionId, isProcessing,
                   educationLevel, started, toast>>
    /\ UNCHANGED <<extractVars, storeVars>>

\* extractText after its await, the extraction having resolved with result
ExtractResolve(t, result, wInit, wSave) ==
    /\ t \in tasks /\ t.kind = "extract"
    /\ result \in ExtractReturns(t.level)
    /\ tasks' = tasks \ {t}
    /\ isProcessing' = FALSE
    /\ IF Truthy(result.errorMessage)
       THEN /\ error' = result.errorMessage
            /\ extractedResult' = {}
            /\ UNCHANGED <<questionId, storage, versionKey, uuids>>
       ELSE /\ uuids < MaxUuids
            /\ LET made == createQuestion(Store(storage, versionKey), uuids + 1,
                                          t.base64, t.file.size, t.file.type,
                                          result, clock, wInit, wSave)
               IN /\ storage' = made.store.data
                  /\ versionKey' = made.store.ver
                  /\ uuids' = uuids + 1
                  /\ IF made.ok
                     THEN /\ extractedResult' = {result}
                          /\ questionId' = made.id
                          /\ error' = error
                     ELSE /\ error' = MessageOr(made.err, "Failed to extract text. Please try again.")
                          /\ UNCHANGED <<extractedResult, questionId>>
    /\ UNCHANGED <<file, preview, educationLevel, started, toast, clock, lastOp, tabs>>
    /\ UNCHANGED extractVars

\* extractText after its await, the extraction having rejected with err
ExtractReject(t, err) ==
    /\ t \in tasks /\ t.kind = "extract"
    /\ err \in ExtractThrows
    /\ tasks' = tasks \ {t}
    /\ isProcessing' = FALSE
    /\ error' = MessageOr(err, "Failed to extract text. Please try again.")
    /\ UNCHANGED <<file, preview, extractedResult, questionId, educationLevel,
                   started, toast>>
    /\ UNCHANGED <<extractVars, storeVars>>

\* Retry Scan: ConfirmationView.handleRetry, then ImageUploader.handleRetry
\* and extractText up to its await
handleRetry ==
    /\ ConfirmationViewShown
    /\ started < MaxStarted
    /\ toast' = "info"
    /\ IF file = NoFile \/ preview = ""
       THEN UNCHANGED <<isProcessing, error, tasks, started>>
       ELSE /\ isProcessing' = TRUE
            /\ error' = Null
            /\ started' = started + 1
            /\ tasks' = tasks \cup {MkTask(started + 1, "extract", file, preview, educationLevel)}
    /\ UNCHANGED <<file, preview, extractedResult, questionId, educationLevel>>
    /\ UNCHANGED <<extractVars, storeVars>>

\* Confirm & Save that keeps the session after the record was confirmed
handleConfirm_KeepSession(wInit, wSave) ==
    /\ ConfirmationViewShown
    /\ LET done == confirmQuestion(Store(storage, versionKey), questionId, clock, wInit, wSave)
       IN /\ storage' = done.store.data
          /\ versionKey' = done.store.ver
          /\ error' = IF done.ok THEN Null ELSE MessageOr(done.err, "Failed to save question.")
    /\ toast' = "success"
    /\ UNCHANGED <<file, preview, extractedResult, questionId>>
    /\ UNCHANGED <<isProcessing, educationLevel, tasks, started, clock, uuids, lastOp, tabs>>
    /\ UNCHANGED extractVars

\* Confirm & Save: ConfirmationView.handleConfirm around ImageUploader.handleConfirm
handleConfirm(wInit, wSave) ==
    /\ ConfirmationViewShown
    /\ LET done == confirmQuestion(Store(storage, versionKey), questionId, clock, wInit, wSave)
       IN /\ storage' = done.store.data
          /\ versionKey' = done.store.ver
          /\ IF done.ok
             THEN /\ file' = NoFile
                  /\ preview' = ""
                  /\ extractedResult' = {}
                  /\ questionId' = NoId
                  /\ error' = Null
             ELSE /\ error' = MessageOr(done.err, "Failed to save question.")
                  /\ UNCHANGED <<file, preview, extractedResult, questionId>>
    /\ toast' = "success"
    /\ UNCHANGED <<isProcessing, educationLevel, tasks, started, clock, uuids, lastOp, tabs>>
    /\ UNCHANGED extractVars

handleEducationLevelChange(level) ==
    /\ level # educationLevel
    /\ educationLevel' = level
    /\ UNCHANGED <<file, preview, extractedResult, questionId, isProcessing, error,
                   tasks, started, toast>>
    /\ UNCHANGED <<extractVars, storeVars>>

\* time passes
Tick ==
    /\ clock < MaxClock
    /\ clock' = clock + 1
    /\ UNCHANGED <<storage, versionKey, uuids, lastOp, tabs>>
    /\ UNCHANGED <<extractVars, uiVars>>

\* ------------------------------------------------------------------------
\* direct calls of the store (lib/storage/questions.ts), one action per call
\* ------------------------------------------------------------------------
\* the record kept of a call: its name, the id passed or returned, the other
\* arguments ({} when the call has none), the instant of the call, what was
\* stored under STORAGE_KEY before it, and how it ended
MkOp(name, id, upload, resp, now, before, ok, err) ==
    [name |-> name, id |-> id, upload |-> upload, resp |-> resp, now |-> now,
     before |-> before, ok |-> ok, err |-> err]
NoOp == MkOp("none", NoId, {}, {}, 0, {}, TRUE, NoError)

\* the image stored: the largest file of a session that passes validation,
\* encoded
Uploads ==
    {[image |-> fileToBase64(f), size |-> f.size, format |-> f.type] :
        f \in {g \in Files : validateImage(g).isValid /\ g.size = MAX_FILE_SIZE}}

\* the extraction results handed to the store: a clean one, a failed one, and
\* one whose errorMessage is the empty string
ResultEmptyMessage == MkResult("x + 1 = 2", 80, TRUE, "", "high")
StoreResults ==
    {JSONParse(JsonGoodA).value, JSONParse(JsonNoText).value, ResultEmptyMessage}

\* the effect of a call on localStorage, and its record
StoreCall(name, id, upload, resp, res) ==
    /\ storage' = res.store.data
    /\ versionKey' = res.store.ver
    /\ lastOp' = MkOp(name, id, upload, resp, clock, storage, res.ok, res.err)
    /\ UNCHANGED <<clock, tabs>>
    /\ UNCHANGED <<extractVars, uiVars>>

OpCreate(u, r, wInit, wSave) ==
    /\ uuids < MaxUuids
    /\ LET S == Store(storage, versionKey)
           made == createQuestion(S, uuids + 1, u.image, u.size, u.format, r,
                                  clock, wInit, wSave)
       IN /\ uuids' = IF getSchema(S, clock, wInit).ok THEN uuids + 1 ELSE uuids
          /\ StoreCall("create", made.id, {u}, {r}, made)

OpConfirm(id, wInit, wSave) ==
    /\ StoreCall("confirm", id, {}, {},
                 confirmQuestion(Store(storage, versionKey), id, clock, wInit, wSave))
    /\ UNCHANGED uuids

OpUpdateExtraction(id, r, wInit, wSave) ==
    /\ StoreCall("updateExtraction", id, {}, {r},
                 updateExtraction(Store(storage, versionKey), id, r, clock, wInit, wSave))
    /\ UNCHANGED uuids

OpDelete(id, wInit, wSave) ==
    /\ StoreCall("delete", id, {}, {},
                 deleteQuestion(Store(storage, versionKey), id, clock, wInit, wSave))
    /\ UNCHANGED uuids

OpClearAll(wInit, wSave) ==
    /\ StoreCall("clearAll", NoId, {}, {},
                 clearAllQuestions(Store(storage, versionKey), clock, wInit, wSave))
    /\ UNCHANGED uuids

\* ---- calls that only read (and lazily create the container)
\* the record kept of such a call also carries what was stored under
\* VERSION_KEY before it and what it returned: {} when it threw
MkRead(name, id, arg, now, before, beforeVer, ok, err, value) ==
    [name |-> name, id |-> id, upload |-> {}, resp |-> arg, now |-> now,
     before |-> before, beforeVer |-> beforeVer, ok |-> ok, err |-> err, value |-> value]

ReadCall(name, id, arg, res, value) ==
    /\ storage' = res.store.data
    /\ versionKey' = res.store.ver
    /\ lastOp' = MkRead(name, id, arg, clock, storage, versionKey, res.ok, res.err, value)
    /\ UNCHANGED <<clock, uuids, tabs>>
    /\ UNCHANGED <<extractVars, uiVars>>

OpInitialize(w) ==
    LET res == initializeStorage(Store(storage, versionKey), clock, w)
    IN ReadCall("initialize", NoId, {}, res, IF res.ok THEN {res.schema} ELSE {})

OpGetAll(wInit) ==
    LET res == getAllQuestions(Store(storage, versionKey), clock, wInit)
    IN ReadCall("getAll", NoId, {}, res, res.value)

OpGetById(id, wInit) ==
    LET res == getQuestionById(Store(storage, versionKey), id, clock, wInit)
    IN ReadCall("getById", id, {}, res, res.value)

OpGetMetrics(est, wInit) ==
    LET res == getStorageMetrics(Store(storage, versionKey), clock, wInit, est)
    IN ReadCall("getMetrics", NoId, {est}, res, res.value)

\* ---- two browsing contexts (tabs) over the same localStorage: a store call
\* is a localStorage.getItem (in getSchema), a change of the parsed copy, and
\* a localStorage.setItem (in saveSchema), with nothing held in between
Tabs == {"A", "B"}

IdleTab(created) == [pc |-> "idle", created |-> created]
LoadedTab(op, id, upload, resp, loaded, schema, created) ==
    [pc |-> "loaded", op |-> op, id |-> id, upload |-> upload, resp |-> resp,
     loaded |-> loaded, schema |-> schema, created |-> created]
IdleTabs == [t \in Tabs |-> IdleTab({})]

\* createQuestion between getSchema and saveSchema
CreateChange(schema, id, u, r, now) ==
    [schema EXCEPT
       !.questions = Put(schema.questions, id,
                         NewQuestion(id, u.image, u.size, u.format, r, now)),
       !.metadata.totalQuestions = @ + 1,
       !.metadata.lastModified = now]

\* confirmQuestion between its check and saveSchema
ConfirmChange(schema, id, now) ==
    [schema EXCEPT
       !.questions[id].confirmedAt = now,
       !.questions[id].processingStatus = "success",
       !.metadata.lastModified = now]

\* deleteQuestion between its check and saveSchema
DeleteChange(schema, id, now) ==
    [schema EXCEPT
       !.questions = Remove(schema.questions, id),
       !.metadata.totalQuestions = @ - 1,
       !.metadata.lastModified = now]

\* what a context hands to saveSchema: a writer that adds its records to the
\* stored ones and keeps its own metadata
SavedByTab_Merged(tab, current, now) ==
    IF current = {} THEN tab.schema
    ELSE LET fresh == ParseSchema(CHOOSE d \in current : TRUE) IN
         [tab.schema EXCEPT
            !.questions = [k \in DOMAIN fresh.questions \cup DOMAIN tab.schema.questions |->
                             IF k \in DOMAIN tab.schema.questions
                             THEN tab.schema.questions[k] ELSE fresh.questions[k]]]
\* what a context hands to saveSchema: a writer that loads again before saving
SavedByTab_Reloaded(tab, current, now) ==
    IF current = {} THEN tab.schema
    ELSE LET fresh == ParseSchema(CHOOSE d \in current : TRUE) IN
         IF tab.op = "create"
         THEN CreateChange(fresh, tab.id, CHOOSE u \in tab.upload : TRUE,
                           CHOOSE r \in tab.resp : TRUE, now)
         ELSE IF tab.id \notin DOMAIN fresh.questions THEN fresh
         ELSE IF tab.op = "delete" THEN DeleteChange(fresh, tab.id, now)
         ELSE ConfirmChange(fresh, tab.id, now)
\* what a context hands to saveSchema: the copy it parsed and changed
SavedByTab(tab, current, now) == tab.schema

TabBeginCreate(t, u, r, wInit) ==
    /\ tabs[t].pc = "idle"
    /\ uuids < MaxUuids
    /\ LET got == getSchema(Store(storage, versionKey), clock, wInit)
       IN /\ storage' = got.store.data
          /\ versionKey' = got.store.ver
          /\ IF got.ok
             THEN /\ uuids' = uuids + 1
                  /\ tabs' = [tabs EXCEPT ![t] =
                                LoadedTab("create", uuids + 1, {u}, {r}, got.store.data,
                                          CreateChange(got.schema, uuids + 1, u, r, clock),
                                          tabs[t].created)]
                  /\ UNCHANGED lastOp
             ELSE /\ lastOp' = MkOp("create", NoId, {u}, {r}, clock, storage, FALSE, got.err)
                  /\ UNCHANGED <<uuids, tabs>>
    /\ UNCHANGED clock
    /\ UNCHANGED <<extractVars, uiVars>>

TabBeginConfirm(t, id, wInit) ==
    /\ tabs[t].pc = "idle"
    /\ LET got == getSchema(Store(storage, versionKey), clock, wInit)
       IN /\ storage' = got.store.data
          /\ versionKey' = got.store.ver
          /\ IF got.ok /\ id \in DOMAIN got.schema.questions
             THEN /\ tabs' = [tabs EXCEPT ![t] =
                                LoadedTab("confirm", id, {}, {}, got.store.data,
                                          ConfirmChange(got.schema, id, clock),
                                          tabs[t].created)]
                  /\ UNCHANGED lastOp
             ELSE /\ lastOp' = MkOp("confirm", id, {}, {}, clock, storage, FALSE,
                                   IF got.ok THEN NotFoundError(id) ELSE got.err)
                  /\ UNCHANGED tabs
    /\ UNCHANGED <<clock, uuids>>
    /\ UNCHANGED <<extractVars, uiVars>>

TabBeginDelete(t, id, wInit) ==
    /\ tabs[t].pc = "idle"
    /\ LET got == getSchema(Store(storage, versionKey), clock, wInit)
       IN /\ storage' = got.store.data
          /\ versionKey' = got.store.ver
          /\ IF got.ok /\ id \in DOMAIN got.schema.questions
             THEN /\ tabs' = [tabs EXCEPT ![t] =
                                LoadedTab("delete", id, {}, {}, got.store.data,
                                          DeleteChange(got.schema, id, clock),
                                          tabs[t].created)]
                  /\ UNCHANGED lastOp
             ELSE /\ lastOp' = MkOp("delete", id, {}, {}, clock, storage, FALSE,
                                   IF got.ok THEN NotFoundError(id) ELSE got.err)
                  /\ UNCHANGED tabs
    /\ UNCHANGED <<clock, uuids>>
    /\ UNCHANGED <<extractVars, uiVars>>

\* the record of a finished call names the container its context had loaded
TabSave(t, w) ==
    /\ tabs[t].pc = "loaded"
    /\ LET saved == saveSchema(Store(storage, versionKey),
                               SavedByTab(tabs[t], storage, clock), clock, w)
       IN /\ storage' = saved.store.data
          /\ versionKey' = saved.store.ver
          /\ lastOp' = MkOp(tabs[t].op,
                            IF tabs[t].op = "create" /\ ~saved.ok THEN NoId ELSE tabs[t].id,
                            tabs[t].upload, tabs[t].resp, clock, tabs[t].loaded,
                            saved.ok, saved.err)
          /\ tabs' = [tabs EXCEPT ![t] =
                        IdleTab(tabs[t].created \cup
                                (IF tabs[t].op = "create" /\ saved.ok THEN {tabs[t].id} ELSE {}))]
    /\ UNCHANGED <<clock, uuids>>
    /\ UNCHANGED <<extractVars, uiVars>>

\* ------------------------------------------------------------------------
\* initial values of the parts a specification leaves alone
\* ------------------------------------------------------------------------
StoreInit ==
    /\ storage = {}
    /\ versionKey = {}
    /\ clock = 0
    /\ uuids = 0
    /\ lastOp = NoOp
    /\ tabs = IdleTabs

UiInit ==
    /\ file = NoFile
    /\ preview = ""
    /\ extractedResult = {}
    /\ questionId = 0
    /\ isProcessing = FALSE
    /\ error = Null
    /\ educationLevel = "middle"
    /\ tasks = {}
    /\ started = 0
    /\ toast = "none"

\* ------------------------------------------------------------------------
\* SpecExtract: one call of extractQuestionFromImage, for every API key
\* setting, grade level and maxRetries in 0..MaxRetriesBound
\* ------------------------------------------------------------------------
InitExtract ==
    /\ apiKeyConfigured \in BOOLEAN
    /\ argEducationLevel \in GradeLevels
    /\ argMaxRetries \in 0..MaxRetriesBound
    /\ pc = "idle"
    /\ attempt = 0
    /\ lastError = NoError
    /\ returned = {}
    /\ thrown = {}
    /\ calls = 0
    /\ timers = <<>>
    /\ responses = <<>>
    /\ StoreInit
    /\ UiInit

NextExtract ==
    \/ ExtractMock
    \/ ExtractBegin
    \/ MockResolve
    \/ \E r \in Responses : ReceiveResponse(r)
    \/ BackoffElapsed

SpecExtract == InitExtract /\ [][NextExtract]_vars

\* every network call and every timer eventually completes
FairSpecExtract == SpecExtract /\ WF_vars(NextExtract)

\* ------------------------------------------------------------------------
\* Spec: one page with the ImageUploader over an initially empty localStorage
\* ------------------------------------------------------------------------
ExtractIdle ==
    /\ argEducationLevel = "middle"
    /\ argMaxRetries = DefaultMaxRetries
    /\ pc = "idle"
    /\ attempt = 0
    /\ lastError = NoError
    /\ returned = {}
    /\ thrown = {}
    /\ calls = 0
    /\ timers = <<>>
    /\ responses = <<>>

\* the lazy initialisation writes only when no container is stored
InitWrites == IF storage = {} THEN WriteOutcomes ELSE {"ok"}

Init ==
    /\ apiKeyConfigured \in BOOLEAN
    /\ ExtractIdle
    /\ StoreInit
    /\ UiInit

Next ==
    \/ \E f \in Files : handleFileSelect(f)
    \/ \E t \in tasks : EncodeResolve(t)
    \/ \E t \in tasks : EncodeReject(t)
    \/ \E t \in tasks, wInit \in InitWrites, wSave \in WriteOutcomes :
          \E result \in ExtractReturns(t.level) : ExtractResolve(t, result, wInit, wSave)
    \/ \E t \in tasks : \E err \in ExtractThrows : ExtractReject(t, err)
    \/ handleRetry
    \/ \E wInit \in InitWrites, wSave \in WriteOutcomes : handleConfirm(wInit, wSave)
    \/ \E level \in SessionLevels : handleEducationLevelChange(level)
    \/ Tick

Spec == Init /\ [][Next]_vars

\* ------------------------------------------------------------------------
\* SpecStore: one context calling the store directly, in any order, with any
\* id handed out so far or not, over an initially empty localStorage
\* ------------------------------------------------------------------------
Ids == 1..MaxUuids

InitStore ==
    /\ apiKeyConfigured = FALSE
    /\ ExtractIdle
    /\ StoreInit
    /\ UiInit

NextStore ==
    \/ \E u \in Uploads, r \in StoreResults, wInit \in InitWrites, wSave \in WriteOutcomes :
          OpCreate(u, r, wInit, wSave)
    \/ \E id \in Ids, wInit \in InitWrites, wSave \in WriteOutcomes :
          OpConfirm(id, wInit, wSave)
    \/ \E id \in Ids, r \in StoreResults, wInit \in InitWrites, wSave \in WriteOutcomes :
          OpUpdateExtraction(id, r, wInit, wSave)
    \/ \E id \in Ids, wInit \in InitWrites, wSave \in WriteOutcomes :
          OpDelete(id, wInit, wSave)
    \/ \E wInit \in InitWrites, wSave \in WriteOutcomes : OpClearAll(wInit, wSave)
    \/ Tick

SpecStore == InitStore /\ [][NextStore]_vars

\* ------------------------------------------------------------------------
\* SpecRead: one context calling initialize, getAll, getById and getMetrics
\* over what an earlier visit left in localStorage: nothing, an empty
\* container, one to two records, or a container of an older schema version
\* ------------------------------------------------------------------------
OLD_VERSION == "0.9.0"

StoredStates ==
    LET u == CHOOSE x \in Uploads : TRUE
        none == Store({}, {})
        empty == initializeStorage(none, 0, "ok").store
        one == createQuestion(empty, 1, u.image, u.size, u.format,
                              JSONParse(JsonGoodA).value, 0, "ok", "ok").store
        conf == confirmQuestion(one, 1, 0, "ok", "ok").store
        two == createQuestion(conf, 2, u.image, u.size, u.format,
                              JSONParse(JsonNoText).value, 0, "ok", "ok").store
        old == Store({[(CHOOSE d \in two.data : TRUE) EXCEPT !.version = OLD_VERSION]},
                     {OLD_VERSION})
    IN {none, empty, one, conf, two, old}

InitRead ==
    /\ apiKeyConfigured = FALSE
    /\ ExtractIdle
    /\ UiInit
    /\ \E S \in StoredStates : storage = S.data /\ versionKey = S.ver
    /\ clock \in 0..MaxClock
    /\ uuids = MaxUuids
    /\ lastOp = NoOp
    /\ tabs = IdleTabs

NextRead ==
    \/ \E w \in InitWrites : OpInitialize(w)
    \/ \E w \in InitWrites : OpGetAll(w)
    \/ \E id \in Ids, w \in InitWrites : OpGetById(id, w)
    \/ \E est \in Estimates, w \in InitWrites : OpGetMetrics(est, w)
    \/ Tick

SpecRead == InitRead /\ [][NextRead]_vars

\* ------------------------------------------------------------------------
\* SpecTabs: two contexts creating and confirming over one localStorage,
\* their getItem and setItem steps interleaved in every order, within one
\* instant of the clock; a save either goes through or is refused whole
\* ------------------------------------------------------------------------
TabWrites == {"ok", "quotaOnData"}
\* the extraction result the contexts store
TabResults == {JSONParse(JsonGoodA).value}

NextTabs ==
    \/ \E t \in Tabs, u \in Uploads, r \in TabResults : TabBeginCreate(t, u, r, "ok")
    \/ \E t \in Tabs, id \in Ids : TabBeginConfirm(t, id, "ok")
    \/ \E t \in Tabs, w \in TabWrites : TabSave(t, w)

SpecTabs == InitStore /\ [][NextTabs]_vars

\* SpecTabsDelete: the same two contexts, deleting as well
NextTabsDelete ==
    \/ \E t \in Tabs, u \in Uploads, r \in TabResults : TabBeginCreate(t, u, r, "ok")
    \/ \E t \in Tabs, id \in Ids : TabBeginConfirm(t, id, "ok")
    \/ \E t \in Tabs, id \in Ids : TabBeginDelete(t, id, "ok")
    \/ \E t \in Tabs, w \in TabWrites : TabSave(t, w)

SpecTabsDelete == InitStore /\ [][NextTabsDelete]_vars

\* ------------------------------------------------------------------------
\* Properties of extractQuestionFromImage (checked under SpecExtract)
\* ------------------------------------------------------------------------
Terminal == pc \in {"returned", "thrown"}
Last(seq) == seq[Len(seq)]

RECURSIVE SumSeq(_)
SumSeq(seq) == IF seq = <<>> THEN 0 ELSE seq[1] + SumSeq(Tail(seq))

\* the response classes as the specification words them
Is401(r) == r.rejected /\ r.error.hasStatus /\ r.error.status = 401
IsRateOrServer(r) ==
    r.rejected /\ r.error.hasStatus /\ (r.error.status = 429 \/ r.error.status >= 500)
IsOtherFailure(r) == r.rejected /\ ~Is401(r) /\ ~IsRateOrServer(r)
IsEmptyPayload(r) == ~r.rejected /\ (~r.hasContent \/ r.content = "")
IsMalformedPayload(r) ==
    ~r.rejected /\ r.hasContent /\ r.content \notin {"", JsonGoodA, JsonNoText, JsonOverConfident}

\* min(1000 * 2^k, 10000) written out
DelayTable(k) ==
    CASE k = 0 -> 1000 [] k = 1 -> 2000 [] k = 2 -> 4000 [] k = 3 -> 8000
      [] OTHER -> 10000
RECURSIVE DelaySum(_)
DelaySum(k) == IF k = 0 THEN 0 ELSE DelayTable(k - 1) + DelaySum(k - 1)

\* response i ended the call at once: it is the last response, the call has
\* failed with err, exactly i calls were issued and no delay followed it
FailedAtOnce(i, err) ==
    /\ i = Len(responses)
    /\ pc = "thrown"
    /\ thrown = {err}
    /\ returned = {}
    /\ calls = i
    /\ Len(timers) = i - 1

\* C1: with a credential, extract never issues more than maxRetries network
\* calls; when every attempt failed with 429 or >= 500 and the call has ended,
\* exactly maxRetries calls were issued and the call failed with
\* "Failed after <maxRetries> attempts: <message of the last attempt's error>".
C1_BoundedCalls ==
    apiKeyConfigured =>
        /\ calls <= argMaxRetries
        /\ (Terminal /\ \A i \in 1..Len(responses) : IsRateOrServer(responses[i])) =>
              /\ calls = argMaxRetries
              /\ Len(responses) = argMaxRetries
              /\ pc = "thrown"
              /\ returned = {}
              /\ \E e \in thrown :
                    /\ thrown = {e}
                    /\ e.message =
                         "Failed after " \o ToString(argMaxRetries) \o " attempts: "
                         \o (IF argMaxRetries = 0 THEN "undefined"
                             ELSE Last(responses).error.message)

C1_Witness ==
    /\ apiKeyConfigured /\ pc = "thrown" /\ argMaxRetries = 3 /\ Len(responses) = 3
    /\ responses[1].error.status = 500
    /\ responses[2].error.status = 429
    /\ responses[3].error.status = 503
    /\ calls = 3

\* C2: a 401 response on any attempt ends the call at once with the invalid
\* API key error: it is the last response, no delay follows it and the number
\* of calls stays at the index of that attempt (one when it is the first).
C2_AuthFailsAtOnce ==
    \A i \in 1..Len(responses) :
        Is401(responses[i]) => FailedAtOnce(i, InvalidKeyError)

C2_Witness ==
    /\ Len(responses) = 2 /\ Is401(responses[2]) /\ pc = "thrown" /\ calls = 2
    /\ argMaxRetries = 3

\* C3 (as stated): an empty payload is retried; the call fails after it only
\* once maxRetries attempts have been used.
C3_EmptyPayloadRetried ==
    \A i \in 1..Len(responses) :
        (IsEmptyPayload(responses[i]) /\ pc = "thrown") => calls = argMaxRetries

\* C3 (amended): an empty payload is not retried. The attempt raises
\* "Empty response from AI", which carries no status code, and the call fails
\* at once with that error: no delay and no further network call, even when
\* attempts remain.
C3_EmptyPayloadFailsAtOnce ==
    \A i \in 1..Len(responses) :
        IsEmptyPayload(responses[i]) => FailedAtOnce(i, EmptyResponseError)

C3_Witness ==
    /\ Len(responses) = 1 /\ IsEmptyPayload(responses[1]) /\ argMaxRetries = 3
    /\ pc = "thrown" /\ calls = 1

\* C4: a non-empty payload that does not parse is never retried: the call
\* fails with the parse error right after that attempt, with no delay and no
\* further network call, even when attempts remain.
C4_MalformedNotRetried ==
    \A i \in 1..Len(responses) :
        IsMalformedPayload(responses[i]) =>
            /\ FailedAtOnce(i, JsonSyntaxError)
            /\ \A e \in thrown : e.name = "SyntaxError"

C4_Witness ==
    /\ Len(responses) = 2 /\ IsMalformedPayload(responses[2]) /\ argMaxRetries = 4
    /\ pc = "thrown" /\ calls = 2

C8_MockShortCircuit ==
    ~apiKeyConfigured =>
        /\ calls = 0
        /\ responses = <<>>
        /\ attempt = 0
        /\ pc # "thrown" /\ thrown = {}
        /\ pc \in {"idle", "mockDelay", "returned"}
        /\ pc = "returned" =>
              returned = {[questionText |-> MockQuestionText, confidence |-> 95,
                           noiseFiltered |-> TRUE, errorMessage |-> Null,
                           educationLevel |-> argEducationLevel]}

C8_Witness ==
    /\ ~apiKeyConfigured /\ pc = "returned" /\ argMaxRetries = 0
    /\ argEducationLevel = "high"

\* C9: when every network call and every delay completes, every call of
\* extract ends in exactly one of returned / thrown, stays there and issues no
\* request afterwards; a transient failure leads back to a request while
\* attempts remain and to failure once maxRetries is used up.
C9_Terminates ==
    /\ <>Terminal
    /\ [](Terminal => ((pc = "returned") <=> (returned # {} /\ thrown = {})))
    /\ [](Terminal => ((pc = "thrown") <=> (thrown # {} /\ returned = {})))
    /\ [](~Terminal => (returned = {} /\ thrown = {}))
    /\ [][Terminal => (pc' = pc /\ calls' = calls /\ returned' = returned /\ thrown' = thrown)]_vars
    /\ [][pc = "backoff" =>
            (pc' = IF attempt + 1 < argMaxRetries THEN "requesting" ELSE "thrown")]_vars

C9_Witness ==
    /\ pc = "thrown" /\ argMaxRetries = 2 /\ Len(responses) = 2 /\ calls = 2
    /\ \A i \in 1..2 : IsRateOrServer(responses[i])

\* ------------------------------------------------------------------------
\* Properties of the upload session (checked under Spec)
\* ------------------------------------------------------------------------

\* C10: before the user confirms, the store holds no record of the session's
\* candidate: a record is in the persisted container only as a result of
\* Confirm & Save, so every persisted record carries a confirmation instant.
C10_StoreOnlyAfterConfirm ==
    \A q \in PersistedQuestions : q.confirmedAt # NoInstant

\* the extractions of the session that have been started and not yet settled
ExtractionsInFlight == {t \in tasks : t.kind = "extract"}

\* C11: under every interleaving of user events with pending asynchronous
\* steps, an extraction is only started with a finished encoding, the
\* confirm/retry decision is offered only while no extraction is in flight,
\* and at most one extraction is in flight at any time.
C11_OrderedSingleExtraction ==
    /\ \A t \in ExtractionsInFlight : t.base64 = fileToBase64(t.file)
    /\ ConfirmationViewShown => ExtractionsInFlight = {}
    /\ Cardinality(ExtractionsInFlight) <= 1

\* ------------------------------------------------------------------------
\* Properties of the store (checked under SpecStore)
\* ------------------------------------------------------------------------
\* the records and the count of what is stored under STORAGE_KEY; nothing
\* stored reads as the empty container
QuestionsOf(data) ==
    IF data = {} THEN [k \in {} |-> 0]
    ELSE ParseSchema(CHOOSE d \in data : TRUE).questions
CountOf(data) ==
    IF data = {} THEN 0
    ELSE ParseSchema(CHOOSE d \in data : TRUE).metadata.totalQuestions

LastModifiedOf(data) == ParseSchema(CHOOSE d \in data : TRUE).metadata.lastModified

\* the last call was `name` and returned normally / threw
Returned(name) == lastOp.name = name /\ lastOp.ok
Threw(name) == lastOp.name = name /\ ~lastOp.ok

\* every record stored before the last call, except those under the keys in
\* `but`, is stored unchanged after it
OthersUnchanged(but) ==
    \A k \in DOMAIN QuestionsOf(lastOp.before) \ but :
        /\ k \in DOMAIN QuestionsOf(storage)
        /\ QuestionsOf(storage)[k] = QuestionsOf(lastOp.before)[k]

\* getById(id) right after the last call: {} for not-found
GetByIdNow(id) == getQuestionById(Store(storage, versionKey), id, clock, "ok").value

\* C12: a create that returns hands back an id that was not in the store;
\* getById(id) then yields a record with the given image, size and format and
\* r's text, confidence, noiseFiltered and errorMessage, with confirmedAt null
\* and processingStatus failed when r.errorMessage is not null and pending
\* otherwise; totalQuestions grew by exactly 1 and no other record changed.
C12_CreateEffect ==
    Returned("create") =>
        \A u \in lastOp.upload, r \in lastOp.resp :
            /\ lastOp.id \notin DOMAIN QuestionsOf(lastOp.before)
            /\ GetByIdNow(lastOp.id) # {}
            /\ \A q \in GetByIdNow(lastOp.id) :
                  /\ q.id = lastOp.id
                  /\ q.imageBase64 = u.image
                  /\ q.fileSize = u.size
                  /\ q.fileFormat = u.format
                  /\ q.extractedText = r.questionText
                  /\ q.confidence = r.confidence
                  /\ q.noiseFiltered = r.noiseFiltered
                  /\ q.errorMessage = r.errorMessage
                  /\ q.confirmedAt = NoInstant
                  /\ q.processingStatus =
                        IF r.errorMessage # Null THEN "failed" ELSE "pending"
            /\ CountOf(storage) = CountOf(lastOp.before) + 1
            /\ DOMAIN QuestionsOf(storage) = DOMAIN QuestionsOf(lastOp.before) \cup {lastOp.id}
            /\ OthersUnchanged({})

\* C13: after any sequence of create, confirm, updateExtraction, delete and
\* clearAll, whether they return or throw (not found, storage full), the
\* persisted container's totalQuestions equals the number of its records and
\* every record is stored under the key equal to its own id.
C13_CountAndKeys ==
    storage # {} =>
        /\ CountOf(storage) = Cardinality(DOMAIN QuestionsOf(storage))
        /\ \A k \in DOMAIN QuestionsOf(storage) : QuestionsOf(storage)[k].id = k

C13_Witness ==
    /\ Returned("delete")
    /\ CountOf(lastOp.before) = 2
    /\ CountOf(storage) = 1
    /\ DOMAIN QuestionsOf(storage) = {2}

\* C14: in every reachable store state every record is failed if and only if
\* its errorMessage is not null.
C14_FailedIffErrorMessage ==
    \A q \in PersistedQuestions :
        (q.processingStatus = "failed") <=> (q.errorMessage # Null)

\* C15: in every reachable store state every record whose confirmedAt is not
\* null has processingStatus success, also after updateExtraction on a
\* confirmed record.
C15_ConfirmedIsSuccess ==
    \A q \in PersistedQuestions :
        q.confirmedAt # NoInstant => q.processingStatus = "success"

\* the last call was `name` on a record that was stored, and its write was
\* not refused for lack of space
OnExisting(name) ==
    /\ lastOp.name = name
    /\ lastOp.id \in DOMAIN QuestionsOf(lastOp.before)
    /\ lastOp.err # StorageFullError

\* C16: confirm(id) on a stored record, whatever its status, succeeds, sets
\* processingStatus = success and confirmedAt = now, which is not before the
\* record's uploadTimestamp nor before an earlier confirmation, updates
\* lastModified, and leaves totalQuestions, every other field of the record
\* and every other record unchanged.
C16_ConfirmEffect ==
    OnExisting("confirm") =>
        LET was == QuestionsOf(lastOp.before)[lastOp.id]
            is == QuestionsOf(storage)
        IN /\ lastOp.ok
           /\ DOMAIN is = DOMAIN QuestionsOf(lastOp.before)
           /\ is[lastOp.id] = [was EXCEPT !.processingStatus = "success",
                                          !.confirmedAt = lastOp.now]
           /\ is[lastOp.id].confirmedAt >= is[lastOp.id].uploadTimestamp
           /\ is[lastOp.id].confirmedAt >= was.confirmedAt
           /\ LastModifiedOf(storage) = lastOp.now
           /\ CountOf(storage) = CountOf(lastOp.before)
           /\ OthersUnchanged({lastOp.id})

\* a second confirm, at a later instant, of a record stored beside another
C16_Witness ==
    /\ Returned("confirm")
    /\ Cardinality(DOMAIN QuestionsOf(storage)) = 2
    /\ lastOp.id \in DOMAIN QuestionsOf(lastOp.before)
    /\ QuestionsOf(lastOp.before)[lastOp.id].processingStatus = "success"
    /\ QuestionsOf(lastOp.before)[lastOp.id].confirmedAt = 0
    /\ QuestionsOf(storage)[lastOp.id].confirmedAt = 1

\* the keys stored both before and after the last call
Kept == DOMAIN QuestionsOf(lastOp.before) \cap DOMAIN QuestionsOf(storage)

\* C17 (as stated): once a record's confirmedAt is non-null no later call, a
\* second confirm included, changes its value while the record exists.
C17_ConfirmedAtNeverChanges ==
    \A k \in Kept :
        QuestionsOf(lastOp.before)[k].confirmedAt # NoInstant =>
            QuestionsOf(storage)[k].confirmedAt = QuestionsOf(lastOp.before)[k].confirmedAt

\* C17 (amended): once a record's confirmedAt is non-null no call resets it to
\* null or moves it backwards while the record exists, and the only call that
\* changes it is a confirm of that record, which replaces it with the instant
\* of that confirm.
C17_ConfirmedAtOnlyMovedByConfirm ==
    \A k \in Kept :
        LET old == QuestionsOf(lastOp.before)[k].confirmedAt
            new == QuestionsOf(storage)[k].confirmedAt
        IN old # NoInstant =>
             /\ new # NoInstant
             /\ new >= old
             /\ new # old => (lastOp.name = "confirm" /\ lastOp.id = k /\ new = lastOp.now)

\* updateExtraction, at a later instant, of a record confirmed before
C17_Witness ==
    /\ Returned("updateExtraction")
    /\ lastOp.id \in Kept
    /\ lastOp.now = 1
    /\ QuestionsOf(lastOp.before)[lastOp.id].confirmedAt = 0
    /\ QuestionsOf(storage)[lastOp.id].confirmedAt = 0

\* the last call was a confirm, updateExtraction or delete of an id that was
\* not stored, and the container could be loaded (its lazy creation on a
\* first access was not refused for lack of space)
OnMissing ==
    /\ lastOp.name \in {"confirm", "updateExtraction", "delete"}
    /\ lastOp.id \notin DOMAIN QuestionsOf(lastOp.before)
    /\ lastOp.err # QuotaExceededDom

\* C18: confirm, updateExtraction and delete of an id that is not in the store
\* each fail with "Question not found" and leave the container unchanged: the
\* same records with the same field values and the same totalQuestions.
C18_NotFoundLeavesContainer ==
    OnMissing =>
        /\ ~lastOp.ok
        /\ lastOp.err = NotFoundError(lastOp.id)
        /\ QuestionsOf(storage) = QuestionsOf(lastOp.before)
        /\ CountOf(storage) = CountOf(lastOp.before)
        /\ lastOp.before # {} => storage = lastOp.before

\* delete of an id that is not stored, beside a stored record
C18_Witness ==
    /\ Threw("delete")
    /\ lastOp.id = 2
    /\ lastOp.err = NotFoundError(2)
    /\ DOMAIN QuestionsOf(storage) = {1}

\* C19: updateExtraction(id, r) on a stored record overwrites exactly
\* extractedText, confidence, noiseFiltered and errorMessage with r's values
\* and sets processingStatus to failed when r carries an error (its
\* errorMessage is not null) and to pending otherwise; confirmedAt, id, image,
\* fileSize, fileFormat, uploadTimestamp, totalQuestions and every other
\* record stay as they were.
C19_UpdateExtractionEffect ==
    OnExisting("updateExtraction") =>
        \A r \in lastOp.resp :
            LET was == QuestionsOf(lastOp.before)[lastOp.id]
                is == QuestionsOf(storage)
            IN /\ lastOp.ok
               /\ DOMAIN is = DOMAIN QuestionsOf(lastOp.before)
               /\ is[lastOp.id] =
                     [was EXCEPT !.extractedText = r.questionText,
                                 !.confidence = r.confidence,
                                 !.noiseFiltered = r.noiseFiltered,
                                 !.errorMessage = r.errorMessage,
                                 !.processingStatus =
                                     IF r.errorMessage # Null THEN "failed" ELSE "pending"]
               /\ CountOf(storage) = CountOf(lastOp.before)
               /\ OthersUnchanged({lastOp.id})

\* C20: delete(id) on a stored record removes exactly that record: getById(id)
\* then yields not-found, totalQuestions is exactly 1 less than before, and
\* every other record is unchanged.
C20_DeleteEffect ==
    OnExisting("delete") =>
        /\ lastOp.ok
        /\ GetByIdNow(lastOp.id) = {}
        /\ CountOf(storage) = CountOf(lastOp.before) - 1
        /\ DOMAIN QuestionsOf(storage) = DOMAIN QuestionsOf(lastOp.before) \ {lastOp.id}
        /\ OthersUnchanged({lastOp.id})

\* delete of the second of two records, the first one confirmed
C20_Witness ==
    /\ Returned("delete")
    /\ lastOp.id = 2
    /\ DOMAIN QuestionsOf(lastOp.before) = {1, 2}
    /\ DOMAIN QuestionsOf(storage) = {1}
    /\ QuestionsOf(storage)[1].processingStatus = "success"

\* the last call failed on a write refused for lack of space
FailedForSpace == ~lastOp.ok /\ lastOp.err \in {QuotaExceededDom, StorageFullError}

\* C21: every write refused for lack of space surfaces as the 'Storage is
\* full' error, the write that lazily creates the container on a first
\* access included.
C21_QuotaSurfacesAsStorageFull ==
    FailedForSpace => lastOp.err = StorageFullError

\* ------------------------------------------------------------------------
\* Properties of initialize and of the reading calls (checked under SpecRead)
\* ------------------------------------------------------------------------
\* the schema version written in what is stored under STORAGE_KEY
VersionOf(data) == ParseSchema(CHOOSE d \in data : TRUE).version

\* C22: initialize() over a container of another schema version fails with
\* the migration error and writes nothing; over no container it persists and
\* returns a fresh empty container (no records, totalQuestions = 0,
\* createdAt = lastModified = now); over a container of the current version
\* it returns that container and writes nothing.
C22_Initialize ==
    lastOp.name = "initialize" =>
        /\ (lastOp.before # {} /\ VersionOf(lastOp.before) # CURRENT_VERSION) =>
              /\ ~lastOp.ok
              /\ lastOp.err = MigrationError(VersionOf(lastOp.before))
              /\ storage = lastOp.before /\ versionKey = lastOp.beforeVer
        /\ (lastOp.before = {} /\ lastOp.err # QuotaExceededDom) =>
              /\ lastOp.ok
              /\ \A c \in lastOp.value :
                    /\ DOMAIN c.questions = {}
                    /\ c.version = CURRENT_VERSION
                    /\ c.metadata = [createdAt |-> lastOp.now, lastModified |-> lastOp.now,
                                     totalQuestions |-> 0]
                    /\ storage # {} /\ ParseSchema(CHOOSE d \in storage : TRUE) = c
              /\ lastOp.value # {}
              /\ versionKey = {CURRENT_VERSION}
        /\ (lastOp.before # {} /\ VersionOf(lastOp.before) = CURRENT_VERSION) =>
              /\ lastOp.ok
              /\ lastOp.value = {ParseSchema(CHOOSE d \in lastOp.before : TRUE)}
              /\ storage = lastOp.before /\ versionKey = lastOp.beforeVer

\* initialize refused over the container of the older version
C22_Witness ==
    /\ Threw("initialize")
    /\ lastOp.before # {}
    /\ lastOp.err = MigrationError(OLD_VERSION)
    /\ CountOf(storage) = 2

\* ------------------------------------------------------------------------
\* Properties of two contexts sharing the storage (checked under SpecTabs)
\* ------------------------------------------------------------------------
\* C23: a store call is a load followed by a save with no lock in between, so
\* after a save that went through the persisted container is the one that
\* call saved: what its context had loaded plus its own change, without
\* anything another context saved in between (a create that handed back its
\* id in one context can be absent afterwards).
C23_LastWriteWins ==
    (lastOp.name \in {"create", "confirm"} /\ lastOp.ok) =>
        /\ DOMAIN QuestionsOf(storage) = DOMAIN QuestionsOf(lastOp.before) \cup {lastOp.id}
        /\ OthersUnchanged({lastOp.id})
        /\ CountOf(storage) = CountOf(lastOp.before) + (IF lastOp.name = "create" THEN 1 ELSE 0)

\* the lost update: context A's create handed back id 1, context B's create
\* of id 2 was saved last, and record 1 is not in the store
C23_Witness ==
    /\ 1 \in tabs["A"].created
    /\ 2 \in tabs["B"].created
    /\ Returned("create")
    /\ lastOp.id = 2
    /\ DOMAIN QuestionsOf(storage) = {2}

\* ------------------------------------------------------------------------
\* More properties of the upload session (checked under Spec)
\* ------------------------------------------------------------------------
\* a supported declared type and at most 5 MiB
Acceptable(type, size) == type \in SUPPORTED_FORMATS /\ size <= 5 * 1024 * 1024

\* C24: encoding and extraction are only ever started, retried included, for
\* a file that passed validation, an extraction only with that file's
\* finished encoding, and every record in the store has a supported format
\* and a fileSize of at most 5 MiB.
C24_OnlyValidatedFiles ==
    /\ \A t \in tasks : Acceptable(t.file.type, t.file.size)
    /\ \A t \in ExtractionsInFlight : t.base64 = fileToBase64(t.file)
    /\ \A q \in PersistedQuestions : Acceptable(q.fileFormat, q.fileSize)

\* C25: no failure of Confirm & Save is swallowed: a press of Confirm & Save
\* shows the success notification only when the store's confirm went through
\* (the record is persisted as confirmed), and shows a failure otherwise.
C25_ConfirmFailureShown ==
    [][\A wInit \in InitWrites, wSave \in WriteOutcomes :
          handleConfirm(wInit, wSave) =>
              IF questionId \in DOMAIN QuestionsOf(storage')
                 /\ QuestionsOf(storage')[questionId].confirmedAt # NoInstant
              THEN toast' = "success"
              ELSE toast' # "success" /\ error' # Null]_vars

\* ------------------------------------------------------------------------
\* SpecValidate: validateImage called on files of every declared type, the
\* supported ones and others, and of sizes on both sides of MAX_FILE_SIZE
\* ------------------------------------------------------------------------
FileTypes == SUPPORTED_FORMATS \cup {"image/gif", "application/pdf", ""}
FileSizes == {0, 1, 1024, MAX_FILE_SIZE - 1, MAX_FILE_SIZE, MAX_FILE_SIZE + 1,
              MAX_FILE_SIZE + 1024, 2 * MAX_FILE_SIZE}
AnyFiles == {MkFile("f", t, s) : t \in FileTypes, s \in FileSizes}

InitValidate ==
    /\ apiKeyConfigured = FALSE
    /\ ExtractIdle
    /\ StoreInit
    /\ file \in AnyFiles
    /\ preview = ""
    /\ extractedResult = {}
    /\ questionId = 0
    /\ isProcessing = FALSE
    /\ error = Null
    /\ educationLevel = "middle"
    /\ tasks = {}
    /\ started = 0
    /\ toast = "none"

\* the caller holds another file
PickFile(f) ==
    /\ file' = f
    /\ UNCHANGED <<preview, extractedResult, questionId, isProcessing, error,
                   educationLevel, tasks, started, toast>>
    /\ UNCHANGED <<extractVars, storeVars>>

\* validateImage(file): the record of the call holds the file and the
\* ValidationResult returned
OpValidate ==
    /\ lastOp' = MkRead("validate", NoId, {file}, clock, storage, versionKey,
                        TRUE, NoError, {validateImage(file)})
    /\ UNCHANGED <<storage, versionKey, clock, uuids, tabs>>
    /\ UNCHANGED <<extractVars, uiVars>>

NextValidate ==
    \/ \E f \in AnyFiles : PickFile(f)
    \/ OpValidate

SpecValidate == InitValidate /\ [][NextValidate]_vars

\* ------------------------------------------------------------------------
\* Properties of validateImage (checked under SpecValidate)
\* ------------------------------------------------------------------------
\* the file and the result of the last validateImage call
ValidatedFile == CHOOSE f \in lastOp.resp : TRUE
ValidationOf == CHOOSE r \in lastOp.value : TRUE

\* C26: a file whose declared type is not image/jpeg, image/png or
\* image/webp fails validation with the unsupported-format error whatever its
\* size: the format is checked before the size, so an unsupported file over
\* 5 MiB reports the format error and never the too-large one.
C26_FormatCheckedFirst ==
    (Returned("validate")
     /\ ValidatedFile.type \notin {"image/jpeg", "image/png", "image/webp"})
    => /\ ~ValidationOf.isValid
       /\ ValidationOf.errorMessage =
            "Invalid file format. Please upload an image file (JPEG, PNG, or WebP). Your file type: "
            \o ValidatedFile.type

\* a PDF of 10 MiB was turned away for its format
C26_Witness ==
    /\ Returned("validate")
    /\ ValidatedFile.type = "application/pdf"
    /\ ValidatedFile.size = 10 * 1024 * 1024
    /\ ValidationOf.errorMessage =
         "Invalid file format. Please upload an image file (JPEG, PNG, or WebP). Your file type: application/pdf"

\* C27: a file of a supported type passes validation if and only if its size
\* is at most 5 MiB (5 * 1024 * 1024 bytes): exactly 5 MiB is accepted, and
\* 5 MiB + 1 byte or more fails with the too-large error.
C27_SizeLimitInclusive ==
    (Returned("validate")
     /\ ValidatedFile.type \in {"image/jpeg", "image/png", "image/webp"})
    => IF ValidatedFile.size <= 5 * 1024 * 1024
       THEN ValidationOf = [isValid |-> TRUE, errorMessage |-> Null]
       ELSE /\ ~ValidationOf.isValid
            /\ ValidationOf.errorMessage =
                 "Image is too large (" \o SizeMB(ValidatedFile.size)
                 \o "MB). Please use an image under 5MB."

\* a PNG of exactly 5 MiB was accepted
C27_Witness ==
    /\ Returned("validate")
    /\ ValidatedFile.type = "image/png"
    /\ ValidatedFile.size = 5 * 1024 * 1024
    /\ ValidationOf.isValid

\* ------------------------------------------------------------------------
\* Properties of getAll and getById (checked under SpecRead)
\* ------------------------------------------------------------------------
\* the records a getAll handed back
RecordsOf(value) == UNION {{list[i] : i \in 1..Len(list)} : list \in value}
\* the records stored in a container
StoredIn(data) == {QuestionsOf(data)[k] : k \in DOMAIN QuestionsOf(data)}

\* C28: two getAll() calls with no store mutation in between return the same
\* records, and getAll/getById change no record and not totalQuestions: they
\* write nothing over a stored container, and over no container their only
\* write is the lazy creation of an empty one; what they return is what is
\* stored.
C28_ReadsChangeNothing ==
    /\ [](lastOp.name \in {"getAll", "getById"} =>
            /\ IF lastOp.before = {}
               THEN storage = {} \/ (StoredIn(storage) = {} /\ CountOf(storage) = 0)
               ELSE storage = lastOp.before /\ versionKey = lastOp.beforeVer
            /\ Returned("getAll") =>
                  /\ RecordsOf(lastOp.value) = StoredIn(storage)
                  /\ \A list \in lastOp.value :
                        Len(list) = Cardinality(DOMAIN QuestionsOf(storage))
            /\ Returned("getById") =>
                  lastOp.value = IF lastOp.id \in DOMAIN QuestionsOf(storage)
                                 THEN {QuestionsOf(storage)[lastOp.id]} ELSE {})
    /\ [][(Returned("getAll") /\ lastOp'.name = "getAll" /\ lastOp'.ok)
            => lastOp'.value = lastOp.value]_vars

\* a getAll over two stored records returned both
C28_Witness ==
    /\ Returned("getAll")
    /\ Cardinality(RecordsOf(lastOp.value)) = 2
    /\ CountOf(storage) = 2
    /\ storage = lastOp.before

\* C29: every result extract hands back to the page and every record in the
\* store has a confidence within [0, 1] (0..100 in hundredths), whatever
\* payload the external service returns.
C29_ConfidenceInRange ==
    /\ \A r \in extractedResult : r.confidence >= 0 /\ r.confidence <= 100
    /\ \A q \in PersistedQuestions : q.confidence >= 0 /\ q.confidence <= 100

\* ------------------------------------------------------------------------
\* Properties of getMetrics (checked under SpecRead)
\* ------------------------------------------------------------------------
\* the quota the environment reports, if it reports one
ReportsQuota(est) == est.kind = "reports" /\ est.quota # 0

\* C30: getMetrics computes the used percentage against the quota the
\* environment reports; when the environment cannot report one (the estimate
\* facility is absent, fails, or returns no quota) it uses a fixed quota of
\* 5 MiB; and it never modifies the store (over no container, the lazy
\* creation of an empty one on first access aside).
C30_MetricsQuota ==
    lastOp.name = "getMetrics" =>
        /\ IF lastOp.before = {}
           THEN storage = {} \/ (StoredIn(storage) = {} /\ CountOf(storage) = 0)
           ELSE storage = lastOp.before /\ versionKey = lastOp.beforeVer
        /\ \A est \in lastOp.resp, m \in lastOp.value :
              m.percentUsed =
                 PercentHundredths(BlobSize(storage),
                                   IF ReportsQuota(est) THEN est.quota
                                   ELSE 5 * 1024 * 1024)

\* ------------------------------------------------------------------------
\* compressImage (lib/validation/imageValidator.ts): the canvas dimensions
\* ------------------------------------------------------------------------
maxDimension == 1200

\* img.width and img.height of the decoded pictures
ImageSides == {1, 2, 66, 600, 1199, 1200, 1201, 1440, 1800, 2400, 2401, 4000}
MkImage(width, height) ==
    [name |-> "p.jpg", type |-> "image/jpeg", size |-> 1024, width |-> width, height |-> height]
Images == {MkImage(w, h) : w \in ImageSides, h \in ImageSides}

\* (a / b) * maxDimension in IEEE-754 doubles: for these sides of ImageSides
\* the rounded quotient a / b makes the product fall just below the integer
\* a * maxDimension / b (66 / 1440 * 1200 evaluates to 54.99999999999999)
ProductFallsShort(a, b) == <<a, b>> \in {<<66, 1440>>}

\* canvas.width = (a / b) * maxDimension: the assignment to the unsigned long
\* attribute truncates
ScaledSide(a, b) ==
    IF ProductFallsShort(a, b)
    THEN (a * maxDimension) \div b - 1
    ELSE (a * maxDimension) \div b

MkSize(width, height) == [width |-> width, height |-> height]

\* the dimension computation scaling only over-wide pictures
canvasSize_WidthOnly(width, height) ==
    IF width > maxDimension
    THEN IF width > height
         THEN MkSize(maxDimension, ScaledSide(height, width))
         ELSE MkSize(ScaledSide(width, height), maxDimension)
    ELSE MkSize(width, height)
canvasSize(width, height) ==
    IF width > maxDimension \/ height > maxDimension
    THEN IF width > height
         THEN MkSize(maxDimension, ScaledSide(height, width))
         ELSE MkSize(ScaledSide(width, height), maxDimension)
    ELSE MkSize(width, height)

\* what can happen on the way: the FileReader fails, the picture does not
\* decode, the canvas gives no 2d context, or the JPEG data URL is produced
CompressOutcomes == {"readError", "loadError", "noContext", "ok"}
PlainError(message) == MkError("Error", FALSE, 0, message)

compressImage(f, outcome) ==
    CASE outcome = "readError" ->
            [ok |-> FALSE, err |-> PlainError("Failed to read file"), value |-> {}]
      [] outcome = "loadError" ->
            [ok |-> FALSE, err |-> PlainError("Failed to load image"), value |-> {}]
      [] outcome = "noContext" ->
            [ok |-> FALSE, err |-> PlainError("Failed to get canvas context"), value |-> {}]
      [] OTHER ->
            [ok |-> TRUE, err |-> NoError,
             value |-> {[type |-> "image/jpeg",
                         width |-> canvasSize(f.width, f.height).width,
                         height |-> canvasSize(f.width, f.height).height]}]

\* ------------------------------------------------------------------------
\* SpecCompress: compressImage called on pictures of every pair of sides in
\* ImageSides
\* ------------------------------------------------------------------------
InitCompress ==
    /\ apiKeyConfigured = FALSE
    /\ ExtractIdle
    /\ StoreInit
    /\ file \in Images
    /\ preview = ""
    /\ extractedResult = {}
    /\ questionId = 0
    /\ isProcessing = FALSE
    /\ error = Null
    /\ educationLevel = "middle"
    /\ tasks = {}
    /\ started = 0
    /\ toast = "none"

\* await compressImage(file) resolves or rejects: the record of the call
\* holds the picture and, when it resolved, the size of the canvas encoded
CompressCall(outcome) ==
    /\ LET res == compressImage(file, outcome)
       IN lastOp' = MkRead("compress", NoId, {file}, clock, storage, versionKey,
                           res.ok, res.err, res.value)
    /\ UNCHANGED <<storage, versionKey, clock, uuids, tabs>>
    /\ UNCHANGED <<extractVars, uiVars>>

CompressResolve == CompressCall("ok")
CompressReject(outcome) == outcome # "ok" /\ CompressCall(outcome)

NextCompress ==
    \/ CompressResolve
    \/ \E outcome \in CompressOutcomes : CompressReject(outcome)

SpecCompress == InitCompress /\ [][NextCompress]_vars

\* ------------------------------------------------------------------------
\* Properties of compressImage (checked under SpecCompress)
\* ------------------------------------------------------------------------
\* the picture and the canvas of the last compressImage call
CompressedImage == CHOOSE f \in lastOp.resp : TRUE
CanvasOf == CHOOSE r \in lastOp.value : TRUE

\* `scaled` is within one pixel of side * 1200 / longer
WithinAPixel(scaled, side, longer) ==
    /\ scaled * longer <= side * 1200
    /\ side * 1200 <= (scaled + 1) * longer

SelectOnce(f) == started = 0 /\ handleFileSelect(f)

NextSession ==
    \/ \E f \in Files : SelectOnce(f)
    \/ \E t \in tasks : EncodeResolve(t)
    \/ \E t \in tasks : EncodeReject(t)
    \/ \E t \in tasks, wInit \in InitWrites, wSave \in WriteOutcomes :
          \E result \in ExtractReturns(t.level) : ExtractResolve(t, result, wInit, wSave)
    \/ \E t \in tasks : \E err \in ExtractThrows : ExtractReject(t, err)
    \/ handleRetry
    \/ \E wInit \in InitWrites, wSave \in WriteOutcomes : handleConfirm(wInit, wSave)
    \/ \E level \in SessionLevels : handleEducationLevelChange(level)
    \/ Tick

SpecSession == Init /\ [][NextSession]_vars

\* ------------------------------------------------------------------------
\* Properties of one upload session (checked under SpecSession)
\* ------------------------------------------------------------------------
\* C32: within one upload session (one selected file), however often Retry
\* Scan is pressed before confirming, the store holds at most one record of
\* the session: a retry never adds a second record, so once the session's
\* record is confirmed no unconfirmed record is left behind.
C32_OneRecordPerSession ==
    /\ Cardinality(DOMAIN QuestionsOf(storage)) <= 1
    /\ (\E q \in PersistedQuestions : q.confirmedAt # NoInstant)
          => \A q \in PersistedQuestions : q.confirmedAt # NoInstant

\* ------------------------------------------------------------------------
\* More properties of extractQuestionFromImage (checked under SpecExtract)
\* ------------------------------------------------------------------------
\* C33: backoff delays occur only between attempts: after the last
\* (maxRetries-th) attempt failed with a retryable error the call fails
\* without a further delay, so when all attempts fail the delays waited are
\* those of the attempts i < maxRetries - 1, min(1000 * 2^i, 10000) ms each.
C33_NoDelayAfterLastAttempt ==
    apiKeyConfigured =>
        /\ pc = "backoff" => attempt + 1 < argMaxRetries
        /\ (pc = "thrown" /\ argMaxRetries >= 1 /\ Len(responses) = argMaxRetries
            /\ \A i \in 1..Len(responses) : IsRateOrServer(responses[i])) =>
              /\ Len(timers) = argMaxRetries - 1
              /\ SumSeq(timers) = DelaySum(argMaxRetries - 1)

\* an extraction of the session settles in an error: it throws, it reports an
\* errorMessage, or the store write after it fails
ExtractionEndsInError ==
    \E t \in tasks :
        \/ \E err \in ExtractThrows : ExtractReject(t, err)
        \/ \E wInit \in InitWrites, wSave \in WriteOutcomes :
              \E result \in ExtractReturns(t.level) :
                  ExtractResolve(t, result, wInit, wSave) /\ error' # Null

\* C34: the confirm/retry view is offered only when the most recent
\* extraction of the session succeeded: once an extraction (a retry included)
\* has ended in an error, Confirm & Save is not offered, in particular not
\* for the result of an earlier extraction.
C34_NoConfirmAfterFailedRetry ==
    [][ExtractionEndsInError => ~ConfirmationViewShown']_vars

\* ------------------------------------------------------------------------
\* Properties of confirming through the page (checked under Spec)
\* ------------------------------------------------------------------------
\* the record the page's questionId names is stored with a confirmation
CandidateConfirmed ==
    /\ questionId \in DOMAIN QuestionsOf(storage)
    /\ QuestionsOf(storage)[questionId].confirmedAt # NoInstant

\* C35: through the page each stored record is confirmed at most once:
\* Confirm & Save and Retry Scan never act on a record that is already
\* confirmed, a Confirm & Save that confirmed the record clears file, preview,
\* result and questionId, and a retry without a file is a no-op on the store
\* and starts nothing.
C35_ConfirmedAtMostOnce ==
    [][/\ \A wInit \in InitWrites, wSave \in WriteOutcomes :
             handleConfirm(wInit, wSave) =>
                 /\ ~CandidateConfirmed
                 /\ CandidateConfirmed' \/ questionId' = NoId =>
                       /\ questionId' = NoId /\ file' = NoFile
                       /\ preview' = "" /\ extractedResult' = {}
       /\ handleRetry =>
             /\ ~CandidateConfirmed
             /\ file = NoFile => UNCHANGED <<storeVars, tasks>>]_vars

\* a record was confirmed through the page and the session is cleared
C35_Witness ==
    /\ toast = "success"
    /\ questionId = NoId /\ file = NoFile /\ preview = "" /\ extractedResult = {}
    /\ \E q \in PersistedQuestions : q.confirmedAt # NoInstant

\* ------------------------------------------------------------------------
\* Properties of a container of another schema version (checked under
\* SpecRead)
\* ------------------------------------------------------------------------
\* C36: a version mismatch is a hard stop for every store operation: while
\* the persisted container's version differs from the current schema
\* version, create, confirm, updateExtraction, delete, clearAll, getAll and
\* getById each fail with the migration error, hand back no record and write
\* nothing.
C36_MismatchStopsEveryOperation ==
    (/\ lastOp.name \in {"create", "confirm", "updateExtraction", "delete",
                         "clearAll", "getAll", "getById"}
     /\ lastOp.before # {}
     /\ VersionOf(lastOp.before) # CURRENT_VERSION)
    => /\ ~lastOp.ok
       /\ lastOp.err = MigrationError(VersionOf(lastOp.before))
       /\ lastOp.value = {}
       /\ storage = lastOp.before
       /\ versionKey = lastOp.beforeVer

\* ------------------------------------------------------------------------
\* Properties of the container's metadata (checked under SpecStore)
\* ------------------------------------------------------------------------
CreatedAtOf(data) == ParseSchema(CHOOSE d \in data : TRUE).metadata.createdAt

\* C37: in a single context with a monotonic clock, after any sequence of
\* store operations metadata.createdAt still has the value set when the
\* container was created (clearAll included), metadata.lastModified never
\* decreases and is >= createdAt, and every successful mutating operation
\* sets lastModified to the instant of that operation.
C37_MetadataInstants ==
    /\ [](storage # {} => LastModifiedOf(storage) >= CreatedAtOf(storage))
    /\ []((lastOp.name \in {"create", "confirm", "updateExtraction", "delete", "clearAll"}
           /\ lastOp.ok) => LastModifiedOf(storage) = lastOp.now)
    /\ [][storage # {} =>
             /\ storage' # {}
             /\ CreatedAtOf(storage') = CreatedAtOf(storage)
             /\ LastModifiedOf(storage') >= LastModifiedOf(storage)]_vars

\* a clearAll at a later instant emptied a container created earlier
C37_Witness ==
    /\ Returned("clearAll")
    /\ CountOf(lastOp.before) >= 1
    /\ CountOf(storage) = 0
    /\ CreatedAtOf(storage) = 0
    /\ LastModifiedOf(storage) = 1

\* ------------------------------------------------------------------------
\* More properties of two contexts sharing the storage (checked under
\* SpecTabsDelete)
\* ------------------------------------------------------------------------
\* C38: under every interleaving of the store operations of two contexts
\* sharing the storage, the persisted container has totalQuestions equal to
\* the number of its records at every instant: each save writes one whole
\* snapshot that is consistent in itself.
C38_CountHoldsAcrossContexts ==
    storage # {} =>
        CountOf(storage) = Cardinality(DOMAIN QuestionsOf(storage))

\* context A saved its delete of record 1 over the container in which
\* context B had stored record 2 in between: both records are gone
C38_Witness ==
    /\ Returned("delete")
    /\ lastOp.id = 1
    /\ 2 \in tabs["B"].created
    /\ DOMAIN QuestionsOf(storage) = {}
    /\ CountOf(storage) = 0

\* ------------------------------------------------------------------------
\* Properties of a refused write (checked under SpecStore)
\* ------------------------------------------------------------------------
\* C39: when create, confirm, updateExtraction, delete or clearAll fails for
\* lack of space, the persisted container is the one from before the
\* operation: a later getAll or getById shows none of the failed change, and
\* totalQuestions and lastModified are unchanged (over no container, the
\* lazily created empty one aside).
C39_FailedWriteChangesNothing ==
    (/\ lastOp.name \in {"create", "confirm", "updateExtraction", "delete", "clearAll"}
     /\ ~lastOp.ok
     /\ lastOp.err \in {StorageFullError, QuotaExceededDom})
    => /\ QuestionsOf(storage) = QuestionsOf(lastOp.before)
       /\ CountOf(storage) = CountOf(lastOp.before)
       /\ lastOp.before # {} => storage = lastOp.before

====
